---- MODULE Spec2Model ----
(***************************************************************************)
(* A model of plato.rs: the depth-tested Bresenham rasterizer draw_line,   *)
(* the diffing presenter update_screen and the paced render loop of main.  *)
(*                                                                         *)
(* Numbers.  Screen coordinates are i32 in the source; the model draws     *)
(* them from windows around the multiples of the canvas size, far from the *)
(* ends of the i32 range, so no i32 operation of draw_line overflows here. *)
(* An f32 depth is modelled by an integer of an ordered scale whose least  *)
(* element stands for f32::MIN; NaN and the infinities are not drawn.  An  *)
(* f32 intensity is modelled by its numerator over IntensityDen, a         *)
(* rational for which intensity * 11.0 is computed exactly.  Instants and  *)
(* Durations are whole milliseconds.                                       *)
(***************************************************************************)
EXTENDS Integers, Sequences, FiniteSets, TLC

VARIABLES
    screen,       \* main: screen, the frame buffer, screen[y][x]
    depth,        \* main: depth, the depth buffer, depth[y][x]
    last_screen,  \* main: last_screen, the previous frame buffer
    display,      \* the terminal: the character shown at each cell
    ops,          \* the cursor-move+character operations of the last update_screen
    pc,           \* where main is: "start", "loop", "build", "sleep", "panicked", "diverged"
    now,          \* main: now, the last reading of the clock (ms)
    last_frame,   \* main: last_frame (ms)
    sleep_for,    \* the Duration handed to the last thread::sleep (ms)
    orbit_angle,  \* main: orbit_angle, in units of ORBIT_SPEED
    angle,        \* Solid.angle of every solid, in units of its own omega
    calls,        \* the arguments of the draw_line calls issued to the frame under construction
    visited       \* the points (x, y) the loop of the last draw_line call went through, in order

vars == <<screen, depth, last_screen, display, ops, pc, now, last_frame,
          sleep_for, orbit_angle, angle, calls, visited>>

----------------------------------------------------------------------------
(* Program constants *)

WIDTH == 160
HEIGHT == 80
TARGET_FPS == 60

\* Duration::from_millis(1000 / TARGET_FPS): u64 division
frame_time == 1000 \div TARGET_FPS

\* let chars = [' ', '.', ...]; chars[i] of the source is chars[i + 1] here
chars == <<" ", ".", ",", ":", ";", "-", "=", "+", "*", "#", "%", "@">>

----------------------------------------------------------------------------
(* Bounds of the model *)

\* |x1 - x0| and |y1 - y0| of the segments drawn by a single call
MaxDelta == 5
\* x0 is a multiple k * WIDTH, y0 a multiple k * HEIGHT, with |k| <= Laps
Laps == 1
\* finite depths are F32_MIN .. MaxZ
MaxZ == 1
\* an intensity is n / IntensityDen
IntensityDen == 4
\* draw_line calls in one frame
MaxCalls == 2
\* frames the render loop builds
MaxFrames == 2
\* how late (ms) a clock reading may be: oversleep and the time the loop body takes
MaxJitter == 1

\* f32::MIN, the least finite f32: every other depth the model draws is above it
F32_MIN == -MaxZ - 1

\* iterations granted to the loop of draw_line before the model calls it divergent
LoopFuel == 2 * MaxDelta + 2

----------------------------------------------------------------------------
(* draw_line *)

abs(v) == IF v < 0 THEN -v ELSE v

\* Rust's % on i32: the remainder has the sign of the dividend
rem(a, b) == IF a >= 0 THEN a % b ELSE -((-a) % b)

\* (intensity * (chars.len() - 1) as f32) as usize: the cast truncates and
\* saturates, so a negative product gives 0
char_idx(intensity) ==
    LET prod == intensity * (Len(chars) - 1)
    IN  IF prod < 0 THEN 0 ELSE prod \div IntensityDen

\* let sx = if x0 < x1 { 1 } else { -1 }, and sy alike
step_sign(a0, a1) == IF a0 < a1 THEN 1 ELSE -1

wrapped_x(x) == rem(x + WIDTH, WIDTH)

wrapped_y(y) == rem(y + HEIGHT, HEIGHT)

\* the guard of line 248
in_buffer(wx, wy) == wx >= 0 /\ wx < WIDTH /\ wy >= 0 /\ wy < HEIGHT

\* the depth test with >= for >
depth_test_ge(z, d) == z >= d

\* if z > depth[idx_y][idx_x]
depth_test(z, d) == z > d

\* plot without the depth test: every visited cell is overwritten
plot_always(b, x, y, z, ch) ==
    LET wx == wrapped_x(x)
        wy == wrapped_y(y)
    IN  IF in_buffer(wx, wy)
        THEN [screen |-> [b.screen EXCEPT ![wy][wx] = ch],
              depth  |-> [b.depth EXCEPT ![wy][wx] = z]]
        ELSE b

\* plot that paints the character and forgets depth[idx_y][idx_x] = z
plot_nodepth(b, x, y, z, ch) ==
    LET wx == wrapped_x(x)
        wy == wrapped_y(y)
    IN  IF in_buffer(wx, wy) /\ depth_test(z, b.depth[wy][wx])
        THEN [screen |-> [b.screen EXCEPT ![wy][wx] = ch], depth |-> b.depth]
        ELSE b

\* lines 246-255: one visited point, on the buffers b = [screen, depth]
plot(b, x, y, z, ch) ==
    LET wx == wrapped_x(x)
        wy == wrapped_y(y)
    IN  IF in_buffer(wx, wy) /\ depth_test(z, b.depth[wy][wx])
        THEN [screen |-> [b.screen EXCEPT ![wy][wx] = ch],
              depth  |-> [b.depth EXCEPT ![wy][wx] = z]]
        ELSE b

\* if x == x1 && y == y1 { break; }
at_end(x, y, l) == x = l.x1 /\ y = l.y1

\* advance with the error term tested but never updated
advance_stale_err(x, y, err, l) ==
    LET e2 == 2 * err
    IN  [x   |-> IF e2 > -l.dy THEN x + l.sx ELSE x,
         y   |-> IF e2 < l.dx THEN y + l.sy ELSE y,
         err |-> err]

\* lines 257-259: the next (x, y, err)
advance(x, y, err, l) ==
    LET e2 == 2 * err
        mx == e2 > -l.dy
        err1 == IF mx THEN err - l.dy ELSE err
        my == e2 < l.dx
    IN  [x   |-> IF mx THEN x + l.sx ELSE x,
         y   |-> IF my THEN y + l.sy ELSE y,
         err |-> IF my THEN err1 + l.dx ELSE err1]

\* lines 245-260: the loop, from (x, y, err) on buffers b, with the points gone
\* through so far in pts
RECURSIVE line_loop(_, _, _, _, _, _, _)
line_loop(b, x, y, err, l, pts, fuel) ==
    LET b1 == plot(b, x, y, l.z, l.ch)
        pts1 == Append(pts, <<x, y>>)
        n == advance(x, y, err, l)
    IN  IF at_end(x, y, l)
        THEN [screen |-> b1.screen, depth |-> b1.depth, visited |-> pts1, status |-> "ok"]
        ELSE IF fuel = 0
        THEN [screen |-> b1.screen, depth |-> b1.depth, visited |-> pts1, status |-> "diverged"]
        ELSE line_loop(b1, n.x, n.y, n.err, l, pts1, fuel - 1)

\* draw_line(screen, depth, x0, y0, x1, y1, z, intensity), a = the arguments:
\* the buffers it leaves, the points it went through and how it ended
\* ("panicked": chars[char_idx] is out of bounds, before the loop)
draw_line(scr, dep, a) ==
    LET dx == abs(a.x1 - a.x0)
        dy == abs(a.y1 - a.y0)
        idx == char_idx(a.intensity)
    IN  IF idx >= Len(chars)
        THEN [screen |-> scr, depth |-> dep, visited |-> <<>>, status |-> "panicked"]
        ELSE line_loop([screen |-> scr, depth |-> dep], a.x0, a.y0, dx - dy,
                       [x1 |-> a.x1, y1 |-> a.y1, dx |-> dx, dy |-> dy,
                        sx |-> step_sign(a.x0, a.x1), sy |-> step_sign(a.y0, a.y1),
                        z |-> a.z, ch |-> chars[idx + 1]],
                       <<>>, LoopFuel)

----------------------------------------------------------------------------
(* The buffers *)

Rows == 0 .. HEIGHT - 1
Cols == 0 .. WIDTH - 1

\* vec![vec![' '; WIDTH]; HEIGHT], and row.fill(' ')
blank_screen == [y \in Rows |-> [x \in Cols |-> " "]]

\* a depth buffer reset to 0.0 instead of f32::MIN
fresh_depth_zero == [y \in Rows |-> [x \in Cols |-> 0]]

\* vec![vec![f32::MIN; WIDTH]; HEIGHT], and row.fill(f32::MIN)
fresh_depth == [y \in Rows |-> [x \in Cols |-> F32_MIN]]

----------------------------------------------------------------------------
(* A single draw_line call on freshly reset buffers *)

\* the segments of a single call: from a multiple of the canvas size, by at most
\* MaxDelta in each axis
CallSegments ==
    { [x0 |-> kx * WIDTH, y0 |-> ky * HEIGHT,
       x1 |-> kx * WIDTH + ddx, y1 |-> ky * HEIGHT + ddy] :
        kx \in -Laps .. Laps, ky \in -Laps .. Laps,
        ddx \in -MaxDelta .. MaxDelta, ddy \in -MaxDelta .. MaxDelta }

ZValues == F32_MIN .. MaxZ

\* intensities from -1.0 to 2.0
Intensities == -IntensityDen .. 2 * IntensityDen

Args(s, z, i) ==
    [x0 |-> s.x0, y0 |-> s.y0, x1 |-> s.x1, y1 |-> s.y1, z |-> z, intensity |-> i]

\* every segment at one depth and intensity, and every depth and intensity on
\* the segments along the x axis
CallArgs ==
    { Args(s, 0, IntensityDen) : s \in CallSegments }
    \cup { Args(s, z, i) : s \in {t \in CallSegments : t.y1 = t.y0 /\ t.x1 >= t.x0 /\ t.x1 <= t.x0 + 1},
                           z \in ZValues, i \in Intensities }

\* lines 147-148: the buffers as reset at the start of a frame, the frame
\* builder about to issue its draw_line calls
InitCall ==
    /\ screen = blank_screen
    /\ depth = fresh_depth
    /\ last_screen = blank_screen
    /\ display = blank_screen
    /\ ops = <<>>
    /\ pc = "build"
    /\ now = 0
    /\ last_frame = 0
    /\ sleep_for = 0
    /\ orbit_angle = 0
    /\ angle = 0
    /\ calls = <<>>
    /\ visited = <<>>

\* one call of draw_line from the frame builder (lines 176, 206)
DrawLine(a) ==
    LET r == draw_line(screen, depth, a)
    IN  /\ pc = "build"
        /\ screen' = r.screen
        /\ depth' = r.depth
        /\ visited' = r.visited
        /\ calls' = Append(calls, a)
        /\ pc' = IF r.status = "ok" THEN "build" ELSE r.status
        /\ UNCHANGED <<last_screen, display, ops, now, last_frame, sleep_for,
                       orbit_angle, angle>>

CallOnce ==
    /\ calls = <<>>
    /\ \E a \in CallArgs : DrawLine(a)

SpecCall == InitCall /\ [][CallOnce]_vars

----------------------------------------------------------------------------
(* The draw_line calls of one frame, on freshly reset buffers *)

\* two overlapping segments: one on the canvas, one left of it that starts
\* beyond one canvas width
FrameSegments ==
    { [x0 |-> 0, y0 |-> 0, x1 |-> 2, y1 |-> 1],
      [x0 |-> -WIDTH - 1, y0 |-> HEIGHT, x1 |-> -WIDTH + 1, y1 |-> HEIGHT] }

\* 0.5, 1.0 and 2.0
FrameIntensities == {IntensityDen \div 2, IntensityDen, 2 * IntensityDen}

FrameArgs == { Args(s, z, i) : s \in FrameSegments, z \in ZValues, i \in FrameIntensities }

DrawAny ==
    /\ Len(calls) < MaxCalls
    /\ \E a \in FrameArgs : DrawLine(a)

SpecFrame == InitCall /\ [][DrawAny]_vars

----------------------------------------------------------------------------
(* update_screen and the terminal *)

\* for y in 0..HEIGHT { for x in 0..WIDTH {: the cells in the order of the loops
CellsInOrder == [i \in 1 .. WIDTH * HEIGHT |-> [y |-> (i - 1) \div WIDTH, x |-> (i - 1) % WIDTH]]

\* update_screen that prints every cell that is not blank
update_screen_nonblank(scr, last) ==
    LET changed == SelectSeq(CellsInOrder, LAMBDA c : scr[c.y][c.x] # " ")
    IN  [i \in 1 .. Len(changed) |->
            [row |-> changed[i].y + 1, col |-> changed[i].x + 1,
             ch |-> scr[changed[i].y][changed[i].x]]]

\* update_screen(&screen, &last_screen): the operations printed, in order;
\* "\x1B[{row};{col}H{ch}" is [row, col, ch]
update_screen(scr, last) ==
    LET changed == SelectSeq(CellsInOrder, LAMBDA c : scr[c.y][c.x] # last[c.y][c.x])
    IN  [i \in 1 .. Len(changed) |->
            [row |-> changed[i].y + 1, col |-> changed[i].x + 1,
             ch |-> scr[changed[i].y][changed[i].x]]]

\* the terminal (at least HEIGHT rows of WIDTH columns) after the operations os:
\* ESC[row;colH moves the cursor to the 1-based (row, col), the character lands there
RECURSIVE show(_, _)
show(disp, os) ==
    IF os = <<>> THEN disp
    ELSE show([disp EXCEPT ![Head(os).row - 1][Head(os).col - 1] = Head(os).ch], Tail(os))

----------------------------------------------------------------------------
(* main: the render loop *)

\* if now.duration_since(last_frame) > frame_time
frame_due_late(t, last) == t - last > frame_time

\* if now.duration_since(last_frame) >= frame_time
frame_due(t, last) == t - last >= frame_time

\* (light * 0.5 + 0.5).max(0.0).min(1.0)
clamp_intensity(raw) ==
    LET lo == IF raw < 0 THEN 0 ELSE raw
    IN  IF lo > IntensityDen THEN IntensityDen ELSE lo

\* the edges a frame is built from, each with its projected endpoints, its
\* avg_depth and its light * 0.5 + 0.5 before the clamp
SceneEdges ==
    { Args([x0 |-> 0, y0 |-> 0, x1 |-> 2, y1 |-> 1], 0, IntensityDen + 1),
      Args([x0 |-> WIDTH - 1, y0 |-> 0, x1 |-> WIDTH + 1, y1 |-> 0], MaxZ, IntensityDen \div 2),
      Args([x0 |-> 0, y0 |-> 0, x1 |-> 2, y1 |-> 1], MaxZ, -1) }

\* what the terminal may show before the program starts
stale_display == [y \in Rows |-> [x \in Cols |-> "?"]]

\* lines 108-110: the buffers as constructed
Init ==
    /\ screen = blank_screen
    /\ last_screen = blank_screen
    /\ depth = fresh_depth
    /\ display \in {blank_screen, stale_display}
    /\ ops = <<>>
    /\ pc = "start"
    /\ now = 0
    /\ last_frame = 0
    /\ sleep_for = 0
    /\ orbit_angle = 0
    /\ angle = 0
    /\ calls = <<>>
    /\ visited = <<>>

\* lines 138-142: clear the display, read the clock (the origin of the time scale)
Startup ==
    /\ pc = "start"
    /\ display' = blank_screen
    /\ pc' = "loop"
    /\ UNCHANGED <<screen, depth, last_screen, ops, now, last_frame, sleep_for,
                   orbit_angle, angle, calls, visited>>

\* lines 145-148: read the clock, which is past the end of the last sleep by at
\* most MaxJitter, and either reset the buffers for a new frame or go to sleep.
\* solid.update (line 182) is taken here: the sphere's edges, drawn before it,
\* do not read any solid's angle
Tick ==
    /\ pc = "loop"
    /\ \E t \in now + sleep_for .. now + sleep_for + MaxJitter :
        /\ now' = t
        /\ IF frame_due(t, last_frame)
           THEN /\ orbit_angle < MaxFrames
                /\ depth' = fresh_depth
                /\ screen' = blank_screen
                /\ angle' = angle + 1
                /\ calls' = <<>>
                /\ visited' = <<>>
                /\ pc' = "build"
           ELSE /\ pc' = "sleep"
                /\ UNCHANGED <<screen, depth, angle, calls, visited>>
    /\ UNCHANGED <<last_screen, display, ops, last_frame, sleep_for, orbit_angle>>

\* lines 166-208: the next edge of the frame
DrawEdge ==
    /\ Len(calls) < MaxCalls
    /\ \E e \in SceneEdges :
        DrawLine([e EXCEPT !.intensity = clamp_intensity(e.intensity)])

\* Present without last_screen.clone_from(&screen)
Present_keeps_last ==
    /\ pc = "build"
    /\ Len(calls) = MaxCalls
    /\ ops' = update_screen(screen, last_screen)
    /\ display' = show(display, ops')
    /\ orbit_angle' = orbit_angle + 1
    /\ last_frame' = now
    /\ calls' = <<>>
    /\ visited' = <<>>
    /\ pc' = "sleep"
    /\ UNCHANGED <<screen, depth, last_screen, now, sleep_for, angle>>

\* lines 210-215: print the difference, keep the frame, advance the orbit
Present ==
    /\ pc = "build"
    /\ Len(calls) = MaxCalls
    /\ ops' = update_screen(screen, last_screen)
    /\ display' = show(display, ops')
    /\ last_screen' = screen
    /\ orbit_angle' = orbit_angle + 1
    /\ last_frame' = now
    /\ calls' = <<>>
    /\ visited' = <<>>
    /\ pc' = "sleep"
    /\ UNCHANGED <<screen, depth, now, sleep_for, angle>>

\* line 217: thread::sleep(frame_time - now.duration_since(last_frame)); the
\* Duration subtraction panics when the result would be negative
Sleep ==
    /\ pc = "sleep"
    /\ IF frame_time < now - last_frame
       THEN pc' = "panicked" /\ UNCHANGED sleep_for
       ELSE pc' = "loop" /\ sleep_for' = frame_time - (now - last_frame)
    /\ UNCHANGED <<screen, depth, last_screen, display, ops, now, last_frame,
                   orbit_angle, angle, calls, visited>>

Next == Startup \/ Tick \/ DrawEdge \/ Present \/ Sleep

Spec == Init /\ [][Next]_vars

----------------------------------------------------------------------------
(* What the claims speak of *)

LastCall == calls[Len(calls)]

\* the character draw_line paints for an intensity
glyph(intensity) == chars[char_idx(intensity) + 1]

\* ramp[round(c * 11)], c the intensity clamped to [0, 1]: round half up of
\* c * 11 / IntensityDen
ramp_glyph(intensity) ==
    LET c == IF intensity < 0 THEN 0
             ELSE IF intensity > IntensityDen THEN IntensityDen ELSE intensity
    IN  chars[(2 * c * (Len(chars) - 1) + IntensityDen) \div (2 * IntensityDen) + 1]

\* the points the loop of draw_line goes through for the arguments a
line_points(a) == draw_line(blank_screen, fresh_depth, a).visited

\* the cells <<row, column>> draw_line depth-tests for the points pts (lines 246-250)
tested_cells(pts) ==
    { <<wrapped_y(pts[i][2]), wrapped_x(pts[i][1])>> :
        i \in { j \in DOMAIN pts : in_buffer(wrapped_x(pts[j][1]), wrapped_y(pts[j][2])) } }

\* the calls of this frame that depth-test the cell c
Covering(c) == { i \in DOMAIN calls : c \in tested_cells(line_points(calls[i])) }

CoveredCells == UNION { tested_cells(line_points(calls[i])) : i \in DOMAIN calls }

\* the calls with the greatest z among those that cover c
Top(c) == { i \in Covering(c) : \A k \in Covering(c) : calls[k].z <= calls[i].z }

MaxOf(S) == CHOOSE m \in S : \A k \in S : k <= m
MinOf(S) == CHOOSE m \in S : \A k \in S : m <= k

sign(v) == IF v > 0 THEN 1 ELSE IF v < 0 THEN -1 ELSE 0

\* the buffers after the calls cs, in this order, on freshly reset buffers
RECURSIVE replay(_, _, _)
replay(scr, dep, cs) ==
    IF cs = <<>> THEN [screen |-> scr, depth |-> dep]
    ELSE LET r == draw_line(scr, dep, Head(cs))
         IN  replay(r.screen, r.depth, Tail(cs))

DistinctZ == \A i, j \in DOMAIN calls : i # j => calls[i].z # calls[j].z

OrderFree ==
    \A p \in Permutations(DOMAIN calls) :
        replay(blank_screen, fresh_depth, [i \in DOMAIN calls |-> calls[p[i]]])
            = [screen |-> screen, depth |-> depth]

----------------------------------------------------------------------------
(* Claims *)

\* C1 (as claimed): after a draw_line call on fresh buffers with a depth above
\* the sentinel, every point (x, y) the line went through is painted at the
\* cell (x mod WIDTH, y mod HEIGHT): none is skipped.
C1_EveryPointWrapped ==
    (calls # <<>> /\ pc = "build" /\ LastCall.z > F32_MIN) =>
        \A i \in DOMAIN visited :
            /\ depth[visited[i][2] % HEIGHT][visited[i][1] % WIDTH] = LastCall.z
            /\ screen[visited[i][2] % HEIGHT][visited[i][1] % WIDTH] = glyph(LastCall.intensity)

\* C2 (as claimed): draw_line never fails on an intensity, and the character it
\* paints is ramp[round(c * 11)], c the intensity clamped to [0, 1].
C2_RoundedClampedGlyph ==
    calls # <<>> =>
        /\ pc # "panicked"
        /\ LastCall.z > F32_MIN =>
            \A c \in tested_cells(visited) : screen[c[1]][c[2]] = ramp_glyph(LastCall.intensity)

\* C3 (as claimed): when the calls of greatest depth over a cell are tied, the
\* cell shows the character of the one drawn last.
C3_TieLastWins ==
    pc = "build" =>
        \A c \in CoveredCells :
            Cardinality(Top(c)) >= 2 =>
                screen[c[1]][c[2]] = glyph(calls[MaxOf(Top(c))].intensity)

\* C3 (amended): when the calls of greatest depth over a cell are tied, the
\* cell shows the character of the one drawn first and holds their depth; at
\* the depth f32::MIN none of them paints and the cell stays blank.
C3_TieFirstWins ==
    pc = "build" =>
        \A c \in CoveredCells :
            Cardinality(Top(c)) >= 2 =>
                /\ depth[c[1]][c[2]] = calls[MinOf(Top(c))].z
                /\ screen[c[1]][c[2]] =
                      IF calls[MinOf(Top(c))].z > F32_MIN
                      THEN glyph(calls[MinOf(Top(c))].intensity) ELSE " "

\* two calls tied over a cell with different characters, the first one showing
C3_Witness ==
    /\ pc = "build"
    /\ \E c \in CoveredCells :
        /\ Cardinality(Top(c)) >= 2
        /\ calls[MinOf(Top(c))].z > F32_MIN
        /\ glyph(calls[MinOf(Top(c))].intensity) # glyph(calls[MaxOf(Top(c))].intensity)
        /\ screen[c[1]][c[2]] = glyph(calls[MinOf(Top(c))].intensity)

\* C4 (as claimed): on fresh buffers the first call, at any finite z, leaves
\* depth = z and its character at every cell it depth-tests.
C4_FirstDrawAnyZ ==
    (Len(calls) = 1 /\ pc = "build") =>
        \A c \in tested_cells(visited) :
            /\ depth[c[1]][c[2]] = LastCall.z
            /\ screen[c[1]][c[2]] = glyph(LastCall.intensity)

\* C4 (amended): on fresh buffers the first call, at any finite z above
\* f32::MIN, leaves depth = z and its character at every cell it depth-tests.
C4_FirstDrawAboveMin ==
    (Len(calls) = 1 /\ pc = "build" /\ LastCall.z > F32_MIN) =>
        \A c \in tested_cells(visited) :
            /\ depth[c[1]][c[2]] = LastCall.z
            /\ screen[c[1]][c[2]] = glyph(LastCall.intensity)

\* a first call at a negative depth above f32::MIN that painted a visible character
C4_Witness ==
    /\ Len(calls) = 1 /\ pc = "build"
    /\ LastCall.z > F32_MIN /\ LastCall.z < 0
    /\ glyph(LastCall.intensity) # " "
    /\ tested_cells(visited) # {}
    /\ \A c \in tested_cells(visited) :
        depth[c[1]][c[2]] = LastCall.z /\ screen[c[1]][c[2]] = glyph(LastCall.intensity)

\* C5: a draw_line call whose z is at most the stored depth at every cell it
\* depth-tests changes neither buffer; a cell changes only if the call
\* depth-tests it with z above its stored depth, and then it takes z and the
\* call's character; every other cell is left as it was.
C5_Occlusion ==
    [][calls' # calls =>
        LET a == calls'[Len(calls')]
            cells == tested_cells(visited')
        IN  /\ (\A c \in cells : a.z <= depth[c[1]][c[2]])
                => (screen' = screen /\ depth' = depth)
            /\ \A c \in cells : a.z > depth[c[1]][c[2]] =>
                (depth'[c[1]][c[2]] = a.z /\ screen'[c[1]][c[2]] = glyph(a.intensity))
            /\ \A y \in Rows :
                \/ (screen'[y] = screen[y] /\ depth'[y] = depth[y])
                \/ \A x \in Cols :
                    (screen'[y][x] # screen[y][x] \/ depth'[y][x] # depth[y][x]) =>
                        /\ <<y, x>> \in cells
                        /\ a.z > depth[y][x]
                        /\ depth'[y][x] = a.z
                        /\ screen'[y][x] = glyph(a.intensity)
    ]_vars

\* a second call over the same segment, deeper than the first and with another
\* character, that left the first call's cells as they were
C5_Witness ==
    /\ Len(calls) = 2 /\ pc = "build"
    /\ calls[2].z < calls[1].z
    /\ line_points(calls[2]) = line_points(calls[1])
    /\ glyph(calls[2].intensity) # glyph(calls[1].intensity)
    /\ \A c \in tested_cells(visited) :
        depth[c[1]][c[2]] = calls[1].z /\ screen[c[1]][c[2]] = glyph(calls[1].intensity)

\* C6: the loop of draw_line ends after exactly max(|dx|, |dy|) steps: it goes
\* through max(|dx|, |dy|) + 1 points, from (x0, y0) to (x1, y1), each step
\* moving x by 0 or sign(x1 - x0) and y by 0 or sign(y1 - y0); (0,0)->(5,0)
\* goes through (0,0) .. (5,0) and (0,0)->(3,4) through 5 points.
C6_Bresenham ==
    (calls # <<>> /\ pc # "panicked") =>
        LET a == LastCall
            n == IF abs(a.x1 - a.x0) > abs(a.y1 - a.y0)
                 THEN abs(a.x1 - a.x0) ELSE abs(a.y1 - a.y0)
        IN  /\ pc = "build"
            /\ Len(visited) = n + 1
            /\ visited[1] = <<a.x0, a.y0>>
            /\ visited[n + 1] = <<a.x1, a.y1>>
            /\ \A i \in 1 .. n :
                /\ visited[i + 1][1] - visited[i][1] \in {0, sign(a.x1 - a.x0)}
                /\ visited[i + 1][2] - visited[i][2] \in {0, sign(a.y1 - a.y0)}
            /\ (a.x0 = 0 /\ a.y0 = 0 /\ a.x1 = 5 /\ a.y1 = 0) =>
                visited = <<<<0, 0>>, <<1, 0>>, <<2, 0>>, <<3, 0>>, <<4, 0>>, <<5, 0>>>>
            /\ (a.x0 = 0 /\ a.y0 = 0 /\ a.x1 = 3 /\ a.y1 = 4) => Len(visited) = 5

\* the line (0,0)->(3,4), drawn through 5 points
C6_Witness ==
    /\ calls # <<>> /\ pc = "build"
    /\ LastCall.x0 = 0 /\ LastCall.y0 = 0 /\ LastCall.x1 = 3 /\ LastCall.y1 = 4
    /\ Len(visited) = 5
    /\ visited[5] = <<3, 4>>

\* C7: update_screen prints one operation, "cursor to (y + 1, x + 1); write
\* screen[y][x]", for each cell that differs from last_screen and none for any
\* other cell; between two identical frames it prints nothing.
C7_DiffOnly ==
    [][(pc = "build" /\ pc' = "sleep") =>
        /\ \A i \in DOMAIN ops' :
            /\ ops'[i].row \in 1 .. HEIGHT /\ ops'[i].col \in 1 .. WIDTH
            /\ screen[ops'[i].row - 1][ops'[i].col - 1]
                 # last_screen[ops'[i].row - 1][ops'[i].col - 1]
            /\ ops'[i].ch = screen[ops'[i].row - 1][ops'[i].col - 1]
        /\ \A i, j \in DOMAIN ops' :
            i # j => <<ops'[i].row, ops'[i].col>> # <<ops'[j].row, ops'[j].col>>
        /\ \A y \in Rows :
            \/ screen[y] = last_screen[y]
            \/ \A x \in Cols : screen[y][x] # last_screen[y][x] =>
                \E i \in DOMAIN ops' : ops'[i].row = y + 1 /\ ops'[i].col = x + 1
        /\ screen = last_screen => ops' = <<>>
    ]_vars

\* a second frame that changed some cells and kept a painted one: operations
\* were printed, none of them for the kept cell
C7_Witness ==
    /\ pc = "sleep" /\ orbit_angle = 2
    /\ ops # <<>>
    /\ \E c \in { <<0, 0>>, <<0, 1>>, <<1, 2>> } :
        /\ screen[c[1]][c[2]] # " "
        /\ \A i \in DOMAIN ops : <<ops[i].row, ops[i].col>> # <<c[1] + 1, c[2] + 1>>

\* C8 (as claimed): for calls of pairwise distinct depths on fresh buffers,
\* every order of the calls leaves the buffers found here, and every covered
\* cell shows the character of the covering call of greatest z and holds that z.
C8_DepthDecides ==
    (pc = "build" /\ calls # <<>> /\ DistinctZ) =>
        /\ OrderFree
        /\ \A c \in CoveredCells :
            /\ depth[c[1]][c[2]] = calls[MaxOf(Top(c))].z
            /\ screen[c[1]][c[2]] = glyph(calls[MaxOf(Top(c))].intensity)

\* C8 (amended): for calls of pairwise distinct depths on fresh buffers, every
\* order of the calls leaves the buffers found here; every cell covered by a
\* call above f32::MIN shows the character of the covering call of greatest z
\* and holds that z, and a cell covered at f32::MIN only stays blank at f32::MIN.
C8_DepthDecidesAboveMin ==
    (pc = "build" /\ calls # <<>> /\ DistinctZ) =>
        /\ OrderFree
        /\ \A c \in CoveredCells :
            /\ depth[c[1]][c[2]] = calls[MaxOf(Top(c))].z
            /\ screen[c[1]][c[2]] =
                  IF calls[MaxOf(Top(c))].z > F32_MIN
                  THEN glyph(calls[MaxOf(Top(c))].intensity) ELSE " "

\* the nearer of two overlapping calls drawn first, then the farther one with
\* another character: the overlap shows the nearer call
C8_Witness ==
    /\ pc = "build" /\ Len(calls) >= 2 /\ DistinctZ
    /\ calls[1].z > calls[2].z
    /\ calls[2].z > F32_MIN
    /\ glyph(calls[1].intensity) # glyph(calls[2].intensity)
    /\ \E c \in tested_cells(line_points(calls[1])) \cap tested_cells(line_points(calls[2])) :
        MaxOf(Top(c)) = 1 /\ screen[c[1]][c[2]] = glyph(calls[1].intensity)

\* C9: after the startup clear and after every presented frame, last_screen
\* equals screen and the display shows screen at every cell.
C9_DisplayInSync ==
    pc \in {"loop", "sleep"} => (last_screen = screen /\ display = screen)

\* two frames presented, the second one not blank, the display showing it
C9_Witness ==
    /\ pc = "sleep" /\ orbit_angle = 2
    /\ ops # <<>>
    /\ screen # blank_screen
    /\ display = screen /\ last_screen = screen

\* C10: the sleep never asks for a negative Duration (the subtraction does not
\* panic); when less than frame_time has elapsed no frame is built, nothing but
\* now changes and the loop sleeps for the rest of the interval; when at least
\* frame_time has elapsed a frame is built, last_frame becomes now and the loop
\* sleeps frame_time.
C10_Pacing ==
    [][/\ pc' # "panicked"
       /\ pc = "loop" =>
            IF now' - last_frame < frame_time
            THEN /\ pc' = "sleep"
                 /\ UNCHANGED <<screen, depth, last_screen, display, ops,
                                orbit_angle, angle, last_frame>>
            ELSE pc' = "build"
       /\ (pc = "build" /\ pc' = "sleep") =>
            (last_frame' = now /\ orbit_angle' = orbit_angle + 1)
       /\ pc = "sleep" =>
            /\ sleep_for' >= 0
            /\ sleep_for' = IF last_frame = now THEN frame_time
                            ELSE frame_time - (now - last_frame)
    ]_vars

\* a frame was presented and the loop slept a whole frame_time after it
C10_Witness ==
    /\ pc = "loop" /\ orbit_angle >= 1
    /\ last_frame = now
    /\ sleep_for = frame_time

====
